---- MODULE Spec2Model ----
(***************************************************************************)
(* Model of the NetCDF -> CSV extraction and verification pipeline of      *)
(* src/src/extractors/netcdf_to_csv.py and                                 *)
(* src/src/verifiers/netcdf_verifier.py.                                   *)
(*                                                                         *)
(* Units.  Coordinates are integers counting quarter degrees (52.0 is      *)
(* 208), so every coordinate is an exact binary float and the one-decimal  *)
(* formatting of a header is the exact round-half-even of the value.       *)
(* Decoded datetimes are integers counting ticks, TicksPerDay ticks to a   *)
(* day; a 'YYYY-MM-DD' string is the integer day number.  Data values are  *)
(* integers counting 1e-6, the verifier's atol.  Indices are 0-based as    *)
(* in the source; TLA+ sequences are 1-based, so element i of an array is  *)
(* s[i + 1].  None is the empty sequence and a present value v is <<v>>.   *)
(***************************************************************************)
EXTENDS Integers, Sequences, FiniteSets, TLC

VARIABLES grid, req, phase, presult, artifact, altered, vresult, call, batch

vars == <<grid, req, phase, presult, artifact, altered, vresult, call, batch>>

----------------------------------------------------------------------------
(* Bounds of the model *)

\* ticks of decoded time in one day (2: midnight and noon)
TicksPerDay == 2
\* supplied dates range over the days -1 .. MaxDay
MaxDay == 4
\* longest axis array drawn for the coordinate resolver
MaxAxisLen == 3
\* axis values and targets of the coordinate resolver range over 0 .. MaxCoord
MaxCoord == 3
\* alterations made to one artifact before it is verified
MaxAlter == 2

----------------------------------------------------------------------------
(* Python values *)

None == <<>>
Some(v) == <<v>>
Val(o) == o[1]

Ok(v) == [err |-> "none", val |-> Some(v)]
Raise(e) == [err |-> e, val |-> None]

Abs(x) == IF x < 0 THEN -x ELSE x
Range(s) == {s[i] : i \in 1..Len(s)}
\* numpy: coords.min(), coords.max()
SeqMin(s) == CHOOSE x \in Range(s) : \A y \in Range(s) : x <= y
SeqMax(s) == CHOOSE x \in Range(s) : \A y \in Range(s) : x >= y
\* builtin min, max of two indices
Min2(a, b) == IF a <= b THEN a ELSE b
Max2(a, b) == IF a >= b THEN a ELSE b

\* a[lo:hi] of Python, for 0 <= lo, hi: empty when hi <= lo
Slice(a, lo, hi) == SubSeq(a, lo + 1, Min2(hi, Len(a)))
\* slice(start, stop)
PySlice(lo, hi) == [start |-> lo, stop |-> hi]
Index(a, sl) == Slice(a, sl.start, sl.stop)

----------------------------------------------------------------------------
(* numpy.argmin: a left-to-right scan that keeps the first minimum *)

RECURSIVE ArgminScanLast(_, _, _)
ArgminScanLast(d, i, best) ==
    IF i > Len(d) THEN best
    ELSE ArgminScanLast(d, i + 1, IF d[i] <= d[best] THEN i ELSE best)

RECURSIVE ArgminScan(_, _, _)
ArgminScan(d, i, best) ==
    IF i > Len(d) THEN best
    ELSE ArgminScan(d, i + 1, IF d[i] < d[best] THEN i ELSE best)

\* np.argmin(d), 0-based
argmin(d) == ArgminScan(d, 2, 1) - 1

----------------------------------------------------------------------------
(* DataExtractor.find_index *)

OutOfRangeStrict(coords, coordinate) ==
    coordinate <= SeqMin(coords) \/ coordinate >= SeqMax(coords)

\* coordinate < coords.min() or coordinate > coords.max()
OutOfRange(coords, coordinate) ==
    coordinate < SeqMin(coords) \/ coordinate > SeqMax(coords)

find_index(coords, coordinate) ==
    IF OutOfRange(coords, coordinate)
    THEN Raise("CoordinateOutOfBounds")
    ELSE Ok(argmin([i \in 1..Len(coords) |-> Abs(coords[i] - coordinate)]))

----------------------------------------------------------------------------
(* RegionalDataExtractor.get_lat_lon_indices *)

RangesUnordered(nw_lat_idx, nw_lon_idx, se_lat_idx, se_lon_idx) ==
    [lat_range |-> PySlice(nw_lat_idx, se_lat_idx + 1),
     lon_range |-> PySlice(nw_lon_idx, se_lon_idx + 1)]

RangesExclusive(nw_lat_idx, nw_lon_idx, se_lat_idx, se_lon_idx) ==
    [lat_range |-> PySlice(Min2(nw_lat_idx, se_lat_idx), Max2(nw_lat_idx, se_lat_idx)),
     lon_range |-> PySlice(Min2(nw_lon_idx, se_lon_idx), Max2(nw_lon_idx, se_lon_idx))]

Ranges(nw_lat_idx, nw_lon_idx, se_lat_idx, se_lon_idx) ==
    [lat_range |-> PySlice(Min2(nw_lat_idx, se_lat_idx),
                           Max2(nw_lat_idx, se_lat_idx) + 1),
     lon_range |-> PySlice(Min2(nw_lon_idx, se_lon_idx),
                           Max2(nw_lon_idx, se_lon_idx) + 1)]

\* the four find_index calls raise in the order nw_lat, nw_lon, se_lat, se_lon
get_lat_lon_indices(g, nw_lat, nw_lon, se_lat, se_lon) ==
    LET nw_lat_idx == find_index(g.latitude, nw_lat)
        nw_lon_idx == find_index(g.longitude, nw_lon)
        se_lat_idx == find_index(g.latitude, se_lat)
        se_lon_idx == find_index(g.longitude, se_lon)
    IN  IF nw_lat_idx.err # "none" THEN Raise(nw_lat_idx.err)
        ELSE IF nw_lon_idx.err # "none" THEN Raise(nw_lon_idx.err)
        ELSE IF se_lat_idx.err # "none" THEN Raise(se_lat_idx.err)
        ELSE IF se_lon_idx.err # "none" THEN Raise(se_lon_idx.err)
        ELSE Ok(Ranges(Val(nw_lat_idx.val), Val(nw_lon_idx.val),
                       Val(se_lat_idx.val), Val(se_lon_idx.val)))

----------------------------------------------------------------------------
(* The grid: dataset.variables of an opened NetCDF file *)

\* netCDF4.num2date(time_var[:], units, calendar): the encoded offsets are
\* counted from the origin the units string names
num2date(values, origin) == [i \in 1..Len(values) |-> origin + values[i]]

\* date.strftime('%Y-%m-%d'): the day of a datetime, its time of day dropped
strftime(d) == d \div TicksPerDay
\* datetime.strptime(s, '%Y-%m-%d'): midnight of the day
strptime(day) == day * TicksPerDay

\* f"{x:.1f}" of a coordinate counted in quarter degrees, in tenths of a
\* degree: .00 -> .0, .25 -> .2, .50 -> .5, .75 -> .8 (round half to even)
Fmt1(c) ==
    LET q == c \div 4
        r == c % 4
    IN  10 * q + (CASE r = 0 -> 0 [] r = 1 -> 2 [] r = 2 -> 5 [] OTHER -> 8)

\* the value of the variable at 0-based (t, la, lo): a synthetic grid with
\* known, pairwise different values around g.base
GridValue(g, t, la, lo) == g.base + 1000 * (100 * t + 10 * la + lo)

\* dataset.variables[variable_name]: the dense array [time, latitude, longitude]
Variable(g) ==
    [t \in 1..Len(g.time) |->
        [la \in 1..Len(g.latitude) |->
            [lo \in 1..Len(g.longitude) |-> GridValue(g, t - 1, la - 1, lo - 1)]]]

RECURSIVE Flatten(_)
Flatten(rows) ==
    IF rows = <<>> THEN <<>> ELSE Head(rows) \o Flatten(Tail(rows))

\* data.reshape(data.shape[0], -1); numpy cannot infer -1 for an array of
\* size 0 and raises ValueError
reshape(data) ==
    IF Len(data) = 0 THEN Raise("ReshapeError")
    ELSE Ok([t \in 1..Len(data) |-> Flatten(data[t])])

\* v[tsel, lat_range, lon_range] for the time-selected planes tsel
Window(tsel, lat_range, lon_range) ==
    [t \in 1..Len(tsel) |->
        LET lats == Index(tsel[t], lat_range)
        IN  [la \in 1..Len(lats) |-> Index(lats[la], lon_range)]]

----------------------------------------------------------------------------
(* DataExtractor *)

extract_data(g, lat_range, lon_range, start_idx, end_idx) ==
    LET v == Variable(g)
        data == IF start_idx # None /\ end_idx # None
                THEN Window(Slice(v, Val(start_idx), Val(end_idx)), lat_range, lon_range)
                ELSE IF start_idx # None
                THEN Window(Slice(v, Val(start_idx), Len(v)), lat_range, lon_range)
                ELSE Window(v, lat_range, lon_range)
    IN  reshape(data)

extract_date(g, start_idx, end_idx) ==
    LET time_var == g.time
        dates == IF start_idx # None /\ end_idx # None
                 THEN num2date(Slice(time_var, Val(start_idx), Val(end_idx)), g.origin)
                 ELSE IF start_idx # None
                 THEN num2date(Slice(time_var, Val(start_idx), Len(time_var)), g.origin)
                 ELSE num2date(time_var, g.origin)
    IN  [i \in 1..Len(dates) |-> strftime(dates[i])]

\* prints dates_subset[0] and dates_subset[-1] (or dates[0], dates[-1]):
\* IndexError when the array indexed is empty
print_time_info(g, start_idx, end_idx) ==
    LET dates == num2date(g.time, g.origin)
        shown == IF start_idx # None /\ end_idx # None
                 THEN Slice(dates, Val(start_idx), Val(end_idx))
                 ELSE IF start_idx # None
                 THEN Slice(dates, Val(start_idx), Len(dates))
                 ELSE dates
    IN  IF Len(shown) = 0 THEN Raise("IndexError") ELSE Ok(TRUE)

DateHeader == [kind |-> "Date", lat |-> 0, lon |-> 0]
CellHeader(lat, lon) == [kind |-> "cell", lat |-> Fmt1(lat), lon |-> Fmt1(lon)]

generate_headers_full_axis(lat_range, lon_range, g) ==
    LET latitudes == Index(g.latitude, lat_range)
        longitudes == g.longitude
    IN  <<DateHeader>> \o
        Flatten([la \in 1..Len(latitudes) |->
                    [lo \in 1..Len(longitudes) |->
                        CellHeader(latitudes[la], longitudes[lo])]])

generate_headers(lat_range, lon_range, g) ==
    LET latitudes == Index(g.latitude, lat_range)
        longitudes == Index(g.longitude, lon_range)
    IN  <<DateHeader>> \o
        Flatten([la \in 1..Len(latitudes) |->
                    [lo \in 1..Len(longitudes) |->
                        CellHeader(latitudes[la], longitudes[lo])]])

\* data.size
Size(data) == IF Len(data) = 0 THEN 0 ELSE Len(data) * Len(data[1])

\* the file df.to_csv writes: the header row, the Date column, the values
save_to_csv(data, dates, headers) ==
    IF Size(data) = 0 THEN Raise("EmptyResult")
    ELSE IF Len(data[1]) # Len(headers) - 1 THEN Raise("ShapeMismatch")
    ELSE IF Len(dates) # Len(data) THEN Raise("LengthMismatch")
    ELSE Ok([headers |-> headers, dates |-> dates, data |-> data])

----------------------------------------------------------------------------
(* RegionalDataExtractor.process_data *)

DateOutOfBoundsStrict(dates, date) ==
    date <= dates[1] \/ date >= dates[Len(dates)]

\* date < dates[0] or date > dates[-1]
DateOutOfBounds(dates, date) == date < dates[1] \/ date > dates[Len(dates)]

NextAtLeastStrict(dates, d) ==
    IF \E i \in 1..Len(dates) : dates[i] > d
    THEN Ok((CHOOSE i \in 1..Len(dates) :
                /\ dates[i] > d
                /\ \A j \in 1..(i - 1) : ~(dates[j] > d)) - 1)
    ELSE Raise("StopIteration")

\* next(i for i, date in enumerate(dates) if date >= start_date)
NextAtLeast(dates, d) ==
    IF \E i \in 1..Len(dates) : dates[i] >= d
    THEN Ok((CHOOSE i \in 1..Len(dates) :
                /\ dates[i] >= d
                /\ \A j \in 1..(i - 1) : ~(dates[j] >= d)) - 1)
    ELSE Raise("StopIteration")

\* next(i for i, date in enumerate(dates) if date > end_date)
NextAfter(dates, d) ==
    IF \E i \in 1..Len(dates) : dates[i] > d
    THEN Ok((CHOOSE i \in 1..Len(dates) :
                /\ dates[i] > d
                /\ \A j \in 1..(i - 1) : ~(dates[j] > d)) - 1)
    ELSE Raise("StopIteration")

\* what a call leaves behind: the exception it raised ("none": it returned),
\* the indices it resolved before that, and the file it wrote, if any
Outcome(e, s, n, r, f) ==
    [err |-> e, start_idx |-> s, end_idx |-> n, ranges |-> r, file |-> f]

process_data(g, starting_date, ending_date, nw_lat, nw_lon, se_lat, se_lon) ==
    LET dates == num2date(g.time, g.origin)
        start == IF starting_date = None THEN Ok(0)
                 ELSE IF DateOutOfBounds(dates, strptime(Val(starting_date)))
                 THEN Raise("StartDateOutOfBounds")
                 ELSE NextAtLeast(dates, strptime(Val(starting_date)))
        start_idx == IF starting_date = None THEN None ELSE start.val
        end == IF ending_date = None THEN Ok(0)
               ELSE IF DateOutOfBounds(dates, strptime(Val(ending_date)))
               THEN Raise("EndDateOutOfBounds")
               ELSE NextAfter(dates, strptime(Val(ending_date)))
        end_idx == IF ending_date = None THEN None ELSE end.val
        info == print_time_info(g, start_idx, end_idx)
        ranges == get_lat_lon_indices(g, nw_lat, nw_lon, se_lat, se_lon)
        lat_range == Val(ranges.val).lat_range
        lon_range == Val(ranges.val).lon_range
        data == extract_data(g, lat_range, lon_range, start_idx, end_idx)
        labels == extract_date(g, start_idx, end_idx)
        headers == generate_headers(lat_range, lon_range, g)
        saved == save_to_csv(Val(data.val), labels, headers)
    IN  \* calendar=time_var.calendar: AttributeError when none is declared
        IF g.calendar = None THEN Outcome("AttributeError", None, None, None, None)
        ELSE IF start.err # "none" THEN Outcome(start.err, None, None, None, None)
        ELSE IF end.err # "none" THEN Outcome(end.err, start_idx, None, None, None)
        ELSE IF info.err # "none" THEN Outcome(info.err, start_idx, end_idx, None, None)
        ELSE IF ranges.err # "none"
        THEN Outcome(ranges.err, start_idx, end_idx, None, None)
        ELSE IF data.err # "none"
        THEN Outcome(data.err, start_idx, end_idx, ranges.val, None)
        ELSE Outcome(saved.err, start_idx, end_idx, ranges.val, saved.val)

----------------------------------------------------------------------------
(* NetCDFVerifier *)

\* atol=1e-6 of np.allclose and np.isclose, in units of 1e-6
Atol == 1
\* 1 / rtol for the rtol=1e-5 that np.allclose and np.isclose apply by default
RtolInv == 100000

\* pd.to_datetime(df['Date']).dt.strftime('%Y-%m-%d') and the value columns
load_csv_data(file) ==
    IF file = None THEN Raise("FileNotFoundError")
    ELSE Ok([dates |-> [i \in 1..Len(Val(file).dates) |->
                            strftime(strptime(Val(file).dates[i]))],
             data |-> Val(file).data])

load_netcdf_data(g, lat_range, lon_range, start_idx, end_idx) ==
    LET time_var == g.time
        v == Variable(g)
        dates == IF start_idx # None /\ end_idx # None
                 THEN num2date(Slice(time_var, Val(start_idx), Val(end_idx)), g.origin)
                 ELSE IF start_idx # None
                 THEN num2date(Slice(time_var, Val(start_idx), Len(time_var)), g.origin)
                 ELSE num2date(time_var, g.origin)
        data == IF start_idx # None /\ end_idx # None
                THEN Window(Slice(v, Val(start_idx), Val(end_idx)), lat_range, lon_range)
                ELSE IF start_idx # None
                THEN Window(Slice(v, Val(start_idx), Len(v)), lat_range, lon_range)
                ELSE Window(v, lat_range, lon_range)
        flat == reshape(data)
    IN  \* calendar=time_var.calendar: AttributeError when none is declared
        IF g.calendar = None THEN Raise("AttributeError")
        ELSE IF flat.err # "none" THEN Raise(flat.err)
        ELSE Ok([dates |-> [i \in 1..Len(dates) |-> strftime(dates[i])],
                 data |-> Val(flat.val)])

Verifier_find_index(g, coordinate, coordinate_type) ==
    LET coords == IF coordinate_type = "latitude" THEN g.latitude ELSE g.longitude
    IN  IF coordinate < SeqMin(coords) \/ coordinate > SeqMax(coords)
        THEN Raise("CoordinateOutOfBounds")
        ELSE Ok(argmin([i \in 1..Len(coords) |-> Abs(coords[i] - coordinate)]))

Verifier_get_lat_lon_indices(g, nw_lat, nw_lon, se_lat, se_lon) ==
    LET nw_lat_idx == Verifier_find_index(g, nw_lat, "latitude")
        nw_lon_idx == Verifier_find_index(g, nw_lon, "longitude")
        se_lat_idx == Verifier_find_index(g, se_lat, "latitude")
        se_lon_idx == Verifier_find_index(g, se_lon, "longitude")
    IN  IF nw_lat_idx.err # "none" THEN Raise(nw_lat_idx.err)
        ELSE IF nw_lon_idx.err # "none" THEN Raise(nw_lon_idx.err)
        ELSE IF se_lat_idx.err # "none" THEN Raise(se_lat_idx.err)
        ELSE IF se_lon_idx.err # "none" THEN Raise(se_lon_idx.err)
        ELSE Ok([lat_range |-> PySlice(Min2(Val(nw_lat_idx.val), Val(se_lat_idx.val)),
                                       Max2(Val(nw_lat_idx.val), Val(se_lat_idx.val)) + 1),
                 lon_range |-> PySlice(Min2(Val(nw_lon_idx.val), Val(se_lon_idx.val)),
                                       Max2(Val(nw_lon_idx.val), Val(se_lon_idx.val)) + 1)])

\* np.isclose(a, b, atol=1e-6): abs(a - b) <= atol + rtol * abs(b), exactly:
\* for integers the bound is abs(a - b) - atol <= floor(abs(b) / (1 / rtol))
isclose(a, b) == Abs(a - b) - Atol <= Abs(b) \div RtolInv

\* numpy broadcasting of an (R, C1) array against an (R, C2) array
Broadcastable(c1, c2) == c1 = c2 \/ c1 = 1 \/ c2 = 1
Bcast(row, k) == IF Len(row) = 1 THEN row[1] ELSE row[k]
\* the columns of the broadcast result: a width of 1 stretches to the other
\* width, a width of 0 included
BroadcastWidth(c1, c2) == IF c1 = 1 THEN c2 ELSE c1

mismatch_first_only(csv_data, netcdf_data) ==
    LET ncols == BroadcastWidth(Len(csv_data[1]), Len(netcdf_data[1]))
        all == {<<r - 1, k - 1>> : r \in 1..Len(csv_data), k \in 1..ncols}
        bad == {ix \in all :
                   ~isclose(Bcast(csv_data[ix[1] + 1], ix[2] + 1),
                            Bcast(netcdf_data[ix[1] + 1], ix[2] + 1))}
    IN  IF bad = {} THEN {}
        ELSE {CHOOSE ix \in bad : \A o \in bad :
                 ix[1] < o[1] \/ (ix[1] = o[1] /\ ix[2] <= o[2])}

\* np.where(~np.isclose(csv_data, netcdf_data, atol=1e-6)): the 0-based
\* (row, column) pairs printed as "Mismatch at index"
mismatch_indices(csv_data, netcdf_data) ==
    LET ncols == BroadcastWidth(Len(csv_data[1]), Len(netcdf_data[1]))
    IN  {ix \in {<<r - 1, k - 1>> : r \in 1..Len(csv_data), k \in 1..ncols} :
            ~isclose(Bcast(csv_data[ix[1] + 1], ix[2] + 1),
                     Bcast(netcdf_data[ix[1] + 1], ix[2] + 1))}

\* what verify_data leaves behind: status "pass" (returned True), "fail"
\* (returned False) or "raise" with the exception in err; the window it
\* resolved; the date pair and the cells it printed; whether it went on to
\* compare the values
Verdict(st, e, s, n, r, dp, mm, cmp) ==
    [status |-> st, err |-> e, start_idx |-> s, end_idx |-> n, ranges |-> r,
     date_report |-> dp, mismatches |-> mm, compared |-> cmp]

verify_data(g, file, starting_date, ending_date, nw_lat, nw_lon, se_lat, se_lon) ==
    LET ranges == Verifier_get_lat_lon_indices(g, nw_lat, nw_lon, se_lat, se_lon)
        lat_range == Val(ranges.val).lat_range
        lon_range == Val(ranges.val).lon_range
        \* dates is bound only inside "if self.starting_date is not None"
        dates == num2date(g.time, g.origin)
        start == IF starting_date = None THEN Ok(0)
                 ELSE IF g.calendar = None THEN Raise("AttributeError")
                 ELSE IF DateOutOfBounds(dates, strptime(Val(starting_date)))
                 THEN Raise("StartDateOutOfBounds")
                 ELSE NextAtLeast(dates, strptime(Val(starting_date)))
        start_idx == IF starting_date = None THEN None ELSE start.val
        end == IF ending_date = None THEN Ok(0)
               ELSE IF starting_date = None THEN Raise("UnboundLocalError")
               ELSE IF DateOutOfBounds(dates, strptime(Val(ending_date)))
               THEN Raise("EndDateOutOfBounds")
               ELSE NextAfter(dates, strptime(Val(ending_date)))
        end_idx == IF ending_date = None THEN None ELSE end.val
        csv == load_csv_data(file)
        nc == load_netcdf_data(g, lat_range, lon_range, start_idx, end_idx)
        csv_dates == Val(csv.val).dates
        csv_data == Val(csv.val).data
        netcdf_dates == Val(nc.val).dates
        netcdf_data == Val(nc.val).data
        bad == mismatch_indices(csv_data, netcdf_data)
    IN  IF ranges.err # "none"
        THEN Verdict("raise", ranges.err, None, None, None, None, {}, FALSE)
        ELSE IF start.err # "none"
        THEN Verdict("raise", start.err, None, None, ranges.val, None, {}, FALSE)
        ELSE IF end.err # "none"
        THEN Verdict("raise", end.err, start_idx, None, ranges.val, None, {}, FALSE)
        ELSE IF csv.err # "none"
        THEN Verdict("raise", csv.err, start_idx, end_idx, ranges.val, None, {}, FALSE)
        ELSE IF nc.err # "none"
        THEN Verdict("raise", nc.err, start_idx, end_idx, ranges.val, None, {}, FALSE)
        ELSE IF csv_dates # netcdf_dates
        THEN IF Len(csv_dates) = 0 \/ Len(netcdf_dates) = 0
             THEN Verdict("raise", "IndexError", start_idx, end_idx, ranges.val,
                          None, {}, FALSE)
             ELSE Verdict("fail", "none", start_idx, end_idx, ranges.val,
                          Some(<<csv_dates[1], netcdf_dates[1]>>), {}, FALSE)
        ELSE IF ~Broadcastable(Len(csv_data[1]), Len(netcdf_data[1]))
        THEN Verdict("raise", "BroadcastError", start_idx, end_idx, ranges.val,
                     None, {}, TRUE)
        ELSE IF bad # {}
        THEN Verdict("fail", "none", start_idx, end_idx, ranges.val, None, bad, TRUE)
        ELSE Verdict("pass", "none", start_idx, end_idx, ranges.val, None, {}, TRUE)

----------------------------------------------------------------------------
(* The state machine *)

\* a request: config.json's city_coords entry, starting_date and ending_date
Request(nwla, nwlo, sela, selo, sd, ed) ==
    [nw_lat |-> nwla, nw_lon |-> nwlo, se_lat |-> sela, se_lon |-> selo,
     starting_date |-> sd, ending_date |-> ed]

\* a dataset whose time variable declares calendar 'standard'
Grid(lat, lon, t, o, b) ==
    [latitude |-> lat, longitude |-> lon, time |-> t, origin |-> o, base |-> b,
     calendar |-> Some("standard")]

NoCall ==
    [op |-> "none", by |-> "none", type |-> "none", coordinate |-> 0,
     ret |-> Raise("none"), prev |-> None]
NoOutcome == Outcome("none", None, None, None, None)
NoVerdict == Verdict("none", "none", None, None, None, None, {}, FALSE)
NoAlteration == [cells |-> {}, rows |-> {}]
\* no batch run: the state of the single-unit specifications
NoBatch == [op |-> "none"]

\* latitude axes, descending and ascending; longitude axes; in quarter degrees
LatAxes == {<<208, 206, 204>>, <<204, 206, 208>>, <<203, 206>>}
LonAxes == {<<-4, -2, 0>>, <<-3, 1>>}
\* time axes: daily at midnight; daily at a later hour, counted from a later
\* origin; and with a day missing
TimeVars ==
    {[time |-> <<0, TicksPerDay, 2 * TicksPerDay, 3 * TicksPerDay>>, origin |-> 0],
     [time |-> <<0, TicksPerDay, 2 * TicksPerDay>>, origin |-> TicksPerDay + 1],
     [time |-> <<0, 2 * TicksPerDay>>, origin |-> 0]}
Bases == {0, 3000000}
Grids ==
    {Grid(lat, lon, tv.time, tv.origin, b) :
        lat \in LatAxes, lon \in LonAxes, tv \in TimeVars, b \in Bases}

\* the named regions: <<nw_lat, nw_lon, se_lat, se_lon>>
Regions ==
    {<<208, -4, 204, 0>>, <<204, 0, 208, -4>>, <<207, -3, 205, -1>>,
     <<206, -2, 206, -2>>, <<210, -2, 206, -2>>}
Dates == {None} \cup {Some(d) : d \in (-1)..MaxDay}
Requests ==
    {Request(c[1], c[2], c[3], c[4], sd, ed) : c \in Regions, sd \in Dates, ed \in Dates}

Init ==
    /\ grid \in Grids
    /\ req \in Requests
    /\ phase = "init"
    /\ presult = NoOutcome
    /\ artifact = None
    /\ altered = NoAlteration
    /\ vresult = NoVerdict
    /\ call = NoCall
    /\ batch = NoBatch

\* city_extractor.process_data(starting_date, ending_date): the whole call,
\* the file written by save_to_csv included
ProcessData ==
    /\ phase = "init"
    /\ LET out == process_data(grid, req.starting_date, req.ending_date,
                               req.nw_lat, req.nw_lon, req.se_lat, req.se_lon)
       IN  /\ presult' = [out EXCEPT !.file = None]
           /\ artifact' = out.file
    /\ phase' = "processed"
    /\ UNCHANGED <<batch, grid, req, altered, vresult, call>>

\* self.verify_data(netcdf_filepath, csv_filepath, ...) of the verification pass
VerifyData ==
    /\ phase \in {"processed", "altered"}
    /\ vresult' = verify_data(grid, artifact, req.starting_date, req.ending_date,
                              req.nw_lat, req.nw_lon, req.se_lat, req.se_lon)
    /\ phase' = "verified"
    /\ UNCHANGED <<batch, grid, req, presult, artifact, altered, call>>

Next == ProcessData \/ VerifyData

Spec == Init /\ [][Next]_vars

----------------------------------------------------------------------------
(* An artifact altered between extraction and verification *)

\* what is added to an altered value, in units of 1e-6
Deltas == {1, -2, 40}

Alterations == Cardinality(altered.cells) + Cardinality(altered.rows)

\* one value of the written file is changed: 0-based row r, data column k
AlterCell(r, k, delta) ==
    /\ phase \in {"processed", "altered"}
    /\ artifact # None
    /\ r < Len(Val(artifact).data)
    /\ k < Len(Val(artifact).data[1])
    /\ Alterations < MaxAlter
    /\ <<r, k>> \notin altered.cells
    /\ artifact' = Some([Val(artifact) EXCEPT
                            !.data[r + 1][k + 1] = Val(artifact).data[r + 1][k + 1] + delta])
    /\ altered' = [altered EXCEPT !.cells = altered.cells \cup {<<r, k>>}]
    /\ phase' = "altered"
    /\ UNCHANGED <<batch, grid, req, presult, vresult, call>>

\* one date of the written file is changed: 0-based row r gets another day
AlterDate(r, day) ==
    /\ phase \in {"processed", "altered"}
    /\ artifact # None
    /\ r < Len(Val(artifact).dates)
    /\ Alterations < MaxAlter
    /\ r \notin altered.rows
    /\ day # Val(artifact).dates[r + 1]
    /\ artifact' = Some([Val(artifact) EXCEPT !.dates[r + 1] = day])
    /\ altered' = [altered EXCEPT !.rows = altered.rows \cup {r}]
    /\ phase' = "altered"
    /\ UNCHANGED <<batch, grid, req, presult, vresult, call>>

\* the written file loses its last row, the date and the values
DropLastRow ==
    /\ phase \in {"processed", "altered"}
    /\ artifact # None
    /\ Len(Val(artifact).dates) >= 1
    /\ Alterations < MaxAlter
    /\ (Len(Val(artifact).dates) - 1) \notin altered.rows
    /\ LET n == Len(Val(artifact).dates)
       IN  /\ artifact' = Some([Val(artifact) EXCEPT
                                   !.dates = SubSeq(@, 1, n - 1),
                                   !.data = SubSeq(@, 1, n - 1)])
           /\ altered' = [altered EXCEPT !.rows = altered.rows \cup {n - 1}]
    /\ phase' = "altered"
    /\ UNCHANGED <<batch, grid, req, presult, vresult, call>>

TamperGrids ==
    {Grid(<<208, 206, 204>>, <<-4, -2, 0>>, tv.time, tv.origin, b) :
        tv \in {[time |-> <<0, TicksPerDay, 2 * TicksPerDay>>, origin |-> 0],
                [time |-> <<0, TicksPerDay, 2 * TicksPerDay>>,
                 origin |-> TicksPerDay + 1]},
        b \in Bases}
TamperRequests ==
    {Request(c[1], c[2], c[3], c[4], d[1], d[2]) :
        c \in {<<207, -3, 205, -1>>, <<206, -2, 206, -2>>},
        d \in {<<None, None>>, <<Some(1), None>>, <<Some(1), Some(2)>>,
                <<None, Some(1)>>}}

InitTamper ==
    /\ grid \in TamperGrids
    /\ req \in TamperRequests
    /\ phase = "init"
    /\ presult = NoOutcome
    /\ artifact = None
    /\ altered = NoAlteration
    /\ vresult = NoVerdict
    /\ call = NoCall
    /\ batch = NoBatch

NextTamper ==
    \/ ProcessData
    \/ \E r \in 0..(Len(grid.time) - 1),
          k \in 0..(Len(grid.latitude) * Len(grid.longitude) - 1),
          delta \in Deltas : AlterCell(r, k, delta)
    \/ \E r \in 0..(Len(grid.time) - 1), day \in 0..MaxDay : AlterDate(r, day)
    \/ DropLastRow
    \/ VerifyData

SpecTamper == InitTamper /\ [][NextTamper]_vars

----------------------------------------------------------------------------
(* The coordinate resolver on its own: find_index and get_lat_lon_indices    *)
(* applied to arbitrary axis arrays                                          *)

RECURSIVE SeqsUpTo(_, _)
SeqsUpTo(S, n) ==
    IF n = 0 THEN {<<>>}
    ELSE LET shorter == SeqsUpTo(S, n - 1)
         IN  shorter \cup {Append(q, x) : q \in shorter, x \in S}

\* every array of 1 .. MaxAxisLen values, repeated and unordered ones included
AllAxes == SeqsUpTo(0..MaxCoord, MaxAxisLen) \ {<<>>}
Targets == (-1)..(MaxCoord + 1)
AxisLonAxes == {<<0, 2>>, <<2, 0>>}
AxisLonCorners == {<<0, 2>>, <<1, 1>>, <<3, 0>>}

\* latitude=[52.0, 51.5, 51.0], longitude=[-1.0, -0.5, 0.0] with the corners
\* NW=(52.0, -1.0), SE=(51.0, 0.0)
ExampleGrid == Grid(<<208, 206, 204>>, <<-4, -2, 0>>, <<0>>, 0, 0)
ExampleRequest == Request(208, -4, 204, 0, None, None)

InitAxis ==
    /\ grid \in {Grid(lat, lon, <<0>>, 0, 0) : lat \in AllAxes, lon \in AxisLonAxes}
                \cup {ExampleGrid}
    /\ req \in {Request(nwla, lc[1], sela, lc[2], None, None) :
                   nwla \in Targets, sela \in Targets, lc \in AxisLonCorners}
               \cup {ExampleRequest}
    /\ phase = "axis"
    /\ presult = NoOutcome
    /\ artifact = None
    /\ altered = NoAlteration
    /\ vresult = NoVerdict
    /\ call = NoCall
    /\ batch = NoBatch

\* self.find_index(coordinate, coordinate_type) of the extractor
FindIndex(coordinate_type) ==
    /\ phase = "axis"
    /\ LET c == IF coordinate_type = "latitude" THEN req.nw_lat ELSE req.nw_lon
           coords == IF coordinate_type = "latitude"
                     THEN grid.latitude ELSE grid.longitude
       IN  call' = [op |-> "find_index", by |-> "extractor",
                    type |-> coordinate_type, coordinate |-> c,
                    ret |-> find_index(coords, c), prev |-> None]
    /\ phase' = "called"
    /\ UNCHANGED <<batch, grid, req, presult, artifact, altered, vresult>>

\* self.find_index(dataset, coordinate, coordinate_type) of the verifier
VerifierFindIndex(coordinate_type) ==
    /\ phase = "axis"
    /\ LET c == IF coordinate_type = "latitude" THEN req.nw_lat ELSE req.nw_lon
       IN  call' = [op |-> "find_index", by |-> "verifier",
                    type |-> coordinate_type, coordinate |-> c,
                    ret |-> Verifier_find_index(grid, c, coordinate_type),
                    prev |-> None]
    /\ phase' = "called"
    /\ UNCHANGED <<batch, grid, req, presult, artifact, altered, vresult>>

\* get_lat_lon_indices of the extractor (by = "extractor") or of the verifier
LatLonIndices(by, r) ==
    IF by = "extractor"
    THEN get_lat_lon_indices(grid, r.nw_lat, r.nw_lon, r.se_lat, r.se_lon)
    ELSE Verifier_get_lat_lon_indices(grid, r.nw_lat, r.nw_lon, r.se_lat, r.se_lon)

GetLatLonIndices(by) ==
    /\ phase = "axis"
    /\ call' = [op |-> "get_lat_lon_indices", by |-> by, type |-> "none",
                coordinate |-> 0, ret |-> LatLonIndices(by, req), prev |-> None]
    /\ phase' = "resolved"
    /\ UNCHANGED <<batch, grid, req, presult, artifact, altered, vresult>>

\* the same call once more with the two corners exchanged; the first
\* call's result is kept in prev
GetLatLonIndicesSwapped ==
    /\ phase = "resolved"
    /\ req' = [req EXCEPT !.nw_lat = req.se_lat, !.se_lat = req.nw_lat,
                          !.nw_lon = req.se_lon, !.se_lon = req.nw_lon]
    /\ call' = [call EXCEPT !.ret = LatLonIndices(call.by, req'),
                            !.prev = Some(call.ret)]
    /\ phase' = "swapped"
    /\ UNCHANGED <<batch, grid, presult, artifact, altered, vresult>>

NextAxis ==
    \/ \E coordinate_type \in {"latitude", "longitude"} : FindIndex(coordinate_type)
    \/ \E coordinate_type \in {"latitude", "longitude"} :
          VerifierFindIndex(coordinate_type)
    \/ \E by \in {"extractor", "verifier"} : GetLatLonIndices(by)
    \/ GetLatLonIndicesSwapped

SpecAxis == InitAxis /\ [][NextAxis]_vars

----------------------------------------------------------------------------
(* The batch: NetCDFProcessor.process_all and                                *)
(* NetCDFVerifier.process_and_verify_files.  A filename, a city name and a   *)
(* path component are sequences of one-character strings, so that split,     *)
(* replace and endswith act on the characters as str's methods do.           *)

\* most entries of one directory listing
MaxFiles == 3

Last(s) == s[Len(s)]

\* s.endswith(suffix)
endswith(s, suffix) ==
    /\ Len(s) >= Len(suffix)
    /\ SubSeq(s, Len(s) - Len(suffix) + 1, Len(s)) = suffix

\* s.split(sep) for a one-character sep: the pieces between the separators
RECURSIVE split(_, _)
split(s, sep) ==
    IF \A i \in 1..Len(s) : s[i] # sep THEN <<s>>
    ELSE LET first == CHOOSE i \in 1..Len(s) :
                          s[i] = sep /\ \A j \in 1..(i - 1) : s[j] # sep
         IN  <<SubSeq(s, 1, first - 1)>> \o split(SubSeq(s, first + 1, Len(s)), sep)

\* s.replace(old, ''): every occurrence of old is removed, left to right
RECURSIVE replace(_, _)
replace(s, old) ==
    IF Len(s) < Len(old) THEN s
    ELSE IF SubSeq(s, 1, Len(old)) = old
    THEN replace(SubSeq(s, Len(old) + 1, Len(s)), old)
    ELSE <<s[1]>> \o replace(Tail(s), old)

\* '.nc' and '.csv'
DotNc == <<".", "n", "c">>
DotCsv == <<".", "c", "s", "v">>

\* variable_name = filename.split('_')[0]
variable_name(filename) == split(filename, "_")[1]
\* version = filename.split('_')[-1].replace('.nc', '')
version(filename) == replace(Last(split(filename, "_")), DotNc)
\* f'{variable_name}_{city}_{version}.csv'
output_filename(variable, city, ver) ==
    variable \o <<"_">> \o city \o <<"_">> \o ver \o DotCsv
\* os.path.join(csv_dir, variable_name, output_filename), relative to csv_dir
csv_filepath(filename, city) ==
    <<variable_name(filename),
      output_filename(variable_name(filename), city, version(filename))>>

\* the files under csv_dir: a set of [path, file] with one entry to a path;
\* df.to_csv replaces what the path held
to_csv(fs, path, file) ==
    {e \in fs : e.path # path} \cup {[path |-> path, file |-> file]}
\* the file at a path, None when there is none
FileAt(fs, path) ==
    IF \E e \in fs : e.path = path
    THEN Some((CHOOSE e \in fs : e.path = path).file)
    ELSE None

\* one (dataset file, region) unit of a run: the exception process_data or
\* verify_data raised in it ("none": it returned) and, for the verifier,
\* the status verify_data returned
Unit(filename, city, path, e, st) ==
    [filename |-> filename, city |-> city, path |-> path, err |-> e, status |-> st]

\* a run so far: the exception that has left it, the units it has entered,
\* the files it has skipped, the files under csv_dir
Run(e, units, skipped, fs) ==
    [err |-> e, units |-> units, skipped |-> skipped, fs |-> fs]
NoRun == Run("none", <<>>, <<>>, {})

\* what a unit of process_file adds to the run: the unit, the exception
\* process_data raised, and the file save_to_csv wrote
extracted(run, f, city, out) ==
    Run(out.err,
        Append(run.units,
               Unit(f.name, city, csv_filepath(f.name, city), out.err, "none")),
        run.skipped,
        IF out.file = None THEN run.fs
        ELSE to_csv(run.fs, csv_filepath(f.name, city), Val(out.file)))

RECURSIVE process_regions(_, _, _, _, _, _)
\* nothing catches what process_data raises: the loop goes on to the next
\* region only when the call returned
next_region(after, f, coords, k, starting_date, ending_date) ==
    IF after.err # "none" THEN after
    ELSE process_regions(after, f, coords, k + 1, starting_date, ending_date)

\* "for city, (nw_lat, nw_lon, se_lat, se_lon) in self.coords.items()" of
\* process_file, from the k-th item on
process_regions(run, f, coords, k, starting_date, ending_date) ==
    IF k > Len(coords) THEN run
    ELSE next_region(
             extracted(run, f, coords[k].city,
                       process_data(f.grid, starting_date, ending_date,
                                    coords[k].corners[1], coords[k].corners[2],
                                    coords[k].corners[3], coords[k].corners[4])),
             f, coords, k, starting_date, ending_date)

\* Dataset(filepath, 'r') raises FileNotFoundError for a file that is gone:
\* process_file prints "Skipping" and returns
process_file(run, f, missing, coords, starting_date, ending_date) ==
    IF f.name \in missing
    THEN Run(run.err, run.units, Append(run.skipped, f.name), run.fs)
    ELSE process_regions(run, f, coords, 1, starting_date, ending_date)

RECURSIVE process_files(_, _, _, _, _, _, _)
\* process_all goes on to the next file only when process_file returned
next_file(after, files, i, missing, coords, starting_date, ending_date) ==
    IF after.err # "none" THEN after
    ELSE process_files(after, files, i + 1, missing, coords,
                       starting_date, ending_date)

\* "for filename in netcdf_files" of process_all, from the i-th file on
process_files(run, files, i, missing, coords, starting_date, ending_date) ==
    IF i > Len(files) THEN run
    ELSE next_file(process_file(run, files[i], missing, coords,
                                starting_date, ending_date),
                   files, i, missing, coords, starting_date, ending_date)

\* [f for f in os.listdir(self.netcdf_dir) if f.endswith('.nc')]
netcdf_files(listing) == SelectSeq(listing, LAMBDA f : endswith(f.name, DotNc))

process_all(listing, missing, coords, starting_date, ending_date) ==
    process_files(NoRun, netcdf_files(listing), 1, missing, coords,
                  starting_date, ending_date)

\* what a unit of process_and_verify_files adds to the run: the unit, with
\* the exception verify_data raised or the status it returned
verified(run, f, city, v) ==
    Run(v.err,
        Append(run.units,
               Unit(f.name, city, csv_filepath(f.name, city), v.err, v.status)),
        run.skipped, run.fs)

\* self.verify_data(netcdf_filepath, csv_filepath, ...): Dataset(netcdf_filepath)
\* comes first and raises FileNotFoundError for a file that is gone
verify_unit(fs, f, missing, city, corners, starting_date, ending_date) ==
    IF f.name \in missing
    THEN Verdict("raise", "FileNotFoundError", None, None, None, None, {}, FALSE)
    ELSE verify_data(f.grid, FileAt(fs, csv_filepath(f.name, city)),
                     starting_date, ending_date,
                     corners[1], corners[2], corners[3], corners[4])

RECURSIVE verify_regions(_, _, _, _, _, _, _)
\* the value verify_data returns is dropped, and nothing catches what it raises
next_verified(after, f, missing, city_coords, k, starting_date, ending_date) ==
    IF after.err # "none" THEN after
    ELSE verify_regions(after, f, missing, city_coords, k + 1,
                        starting_date, ending_date)

\* the inner loop of process_and_verify_files, from the k-th region on
verify_regions(run, f, missing, city_coords, k, starting_date, ending_date) ==
    IF k > Len(city_coords) THEN run
    ELSE next_verified(
             verified(run, f, city_coords[k].city,
                      verify_unit(run.fs, f, missing, city_coords[k].city,
                                  city_coords[k].corners, starting_date, ending_date)),
             f, missing, city_coords, k, starting_date, ending_date)

RECURSIVE verify_files(_, _, _, _, _, _, _)
next_verified_file(after, files, i, missing, city_coords, starting_date, ending_date) ==
    IF after.err # "none" THEN after
    ELSE verify_files(after, files, i + 1, missing, city_coords,
                      starting_date, ending_date)

\* "for filename in netcdf_files" of process_and_verify_files
verify_files(run, files, i, missing, city_coords, starting_date, ending_date) ==
    IF i > Len(files) THEN run
    ELSE next_verified_file(
             verify_regions(run, files[i], missing, city_coords, 1,
                            starting_date, ending_date),
             files, i, missing, city_coords, starting_date, ending_date)

process_and_verify_files(listing, missing, fs, city_coords, starting_date, ending_date) ==
    verify_files(Run("none", <<>>, <<>>, fs), netcdf_files(listing), 1, missing,
                 city_coords, starting_date, ending_date)

\* the datasets of the directory: one that covers both named regions from
\* day 0 on, and a smaller one that starts later and leaves London outside
WideGrid ==
    Grid(<<208, 206, 204>>, <<-4, -2, 0>>,
         <<0, TicksPerDay, 2 * TicksPerDay, 3 * TicksPerDay>>, 0, 0)
NarrowGrid ==
    Grid(<<203, 206>>, <<-3, 1>>, <<0, TicksPerDay>>, 2 * TicksPerDay, 3000000)

File(name, g) == [name |-> name, grid |-> g]
\* 't_a_1.nc', 't_b_1.nc', 'p_a_2.nc', 'p_2.ncep.nc' and 'n.txt'
BatchFiles ==
    {File(<<"t", "_", "a", "_", "1", ".", "n", "c">>, WideGrid),
     File(<<"t", "_", "b", "_", "1", ".", "n", "c">>, NarrowGrid),
     File(<<"p", "_", "a", "_", "2", ".", "n", "c">>, WideGrid),
     File(<<"p", "_", "2", ".", "n", "c", "e", "p", ".", "n", "c">>, NarrowGrid),
     File(<<"n", ".", "t", "x", "t">>, WideGrid)}

\* os.listdir: the entries of the directory in some order, no name twice
Listings ==
    {l \in SeqsUpTo(BatchFiles, MaxFiles) \ {<<>>} :
        \A i, j \in 1..Len(l) : i # j => l[i].name # l[j].name}

\* config.json's city_coords, in the order of its keys
City(name, nw_lat, nw_lon, se_lat, se_lon) ==
    [city |-> name, corners |-> <<nw_lat, nw_lon, se_lat, se_lon>>]
London == City(<<"L", "o", "n">>, 207, -3, 205, -1)
Paris == City(<<"P", "a", "r">>, 206, -2, 206, -2)
CityCoords == {<<London, Paris>>, <<Paris, London>>, <<Paris>>}

\* config.json's starting_date and ending_date
BatchDates == {<<None, None>>, <<Some(1), None>>, <<Some(2), Some(2)>>, <<None, Some(2)>>}

Config(listing, missing, coords, sd, ed) ==
    [listing |-> listing, missing |-> missing, coords |-> coords,
     starting_date |-> sd, ending_date |-> ed]

\* at most one of the listed files is gone by the time it is opened
Configs ==
    {Config(l, m, c, d[1], d[2]) :
        l \in Listings, m \in {{}} \cup {{f.name} : f \in BatchFiles},
        c \in CityCoords, d \in BatchDates}

InitBatch ==
    /\ grid = WideGrid
    /\ req = Request(0, 0, 0, 0, None, None)
    /\ phase = "batch"
    /\ presult = NoOutcome
    /\ artifact = None
    /\ altered = NoAlteration
    /\ vresult = NoVerdict
    /\ call = NoCall
    /\ \E cfg \in Configs :
          /\ cfg.missing \subseteq {cfg.listing[i].name : i \in 1..Len(cfg.listing)}
          /\ batch = [op |-> "batch", config |-> cfg,
                      extraction |-> NoRun, verification |-> NoRun]

\* processor.process_all(starting_date, ending_date): the whole run
ProcessAll ==
    /\ phase = "batch"
    /\ LET cfg == batch.config
       IN  batch' = [batch EXCEPT !.extraction =
                        process_all(cfg.listing, cfg.missing, cfg.coords,
                                    cfg.starting_date, cfg.ending_date)]
    /\ phase' = "batch_processed"
    /\ UNCHANGED <<grid, req, presult, artifact, altered, vresult, call>>

\* verifier.process_and_verify_files(): the whole run, over the files the
\* extraction left under csv_dir
ProcessAndVerifyFiles ==
    /\ phase = "batch_processed"
    /\ LET cfg == batch.config
       IN  batch' = [batch EXCEPT !.verification =
                        process_and_verify_files(cfg.listing, cfg.missing,
                                                 batch.extraction.fs, cfg.coords,
                                                 cfg.starting_date, cfg.ending_date)]
    /\ phase' = "batch_verified"
    /\ UNCHANGED <<grid, req, presult, artifact, altered, vresult, call>>

NextBatch == ProcessAll \/ ProcessAndVerifyFiles

SpecBatch == InitBatch /\ [][NextBatch]_vars

----------------------------------------------------------------------------
(* The variable read from a dataset.  The extractor takes the name from     *)
(* the dataset (DataExtractor.__init__), the verifier from the filename     *)
(* (process_and_verify_files); names are sequences of characters.           *)

\* 'longitude', 'latitude' and 'time'
CoordinateNames ==
    {<<"l", "o", "n", "g", "i", "t", "u", "d", "e">>,
     <<"l", "a", "t", "i", "t", "u", "d", "e">>,
     <<"t", "i", "m", "e">>}

\* an opened dataset: its axes, the calendar attribute of its time variable
\* (None: not declared) and dataset.variables.items() in the order of the
\* file, a data variable with the base its values are generated around
Dataset(lat, lon, t, o, cal, variables) ==
    [latitude |-> lat, longitude |-> lon, time |-> t, origin |-> o,
     calendar |-> cal, variables |-> variables]
Named(name, b) == [name |-> name, base |-> b]

\* DataExtractor.detect_variable: the first name that is none of the three;
\* the function returns None when the loop ends without one
detect_variable(ds) ==
    IF \E i \in 1..Len(ds.variables) : ds.variables[i].name \notin CoordinateNames
    THEN Some(ds.variables[CHOOSE i \in 1..Len(ds.variables) :
                 /\ ds.variables[i].name \notin CoordinateNames
                 /\ \A j \in 1..(i - 1) : ds.variables[j].name \in CoordinateNames].name)
    ELSE None

\* name in dataset.variables
HasVariable(ds, name) == \E i \in 1..Len(ds.variables) : ds.variables[i].name = name

\* the dataset as read through dataset.variables[name]
Opened(ds, name) ==
    [latitude |-> ds.latitude, longitude |-> ds.longitude, time |-> ds.time,
     origin |-> ds.origin,
     base |-> ds.variables[CHOOSE i \in 1..Len(ds.variables) :
                              ds.variables[i].name = name].base,
     calendar |-> ds.calendar]

\* RegionalDataExtractor(filepath, ...).process_data(starting_date, ending_date):
\* self.variable_name = self.detect_variable() is the variable extract_data reads
extract_unit(ds, starting_date, ending_date, nw_lat, nw_lon, se_lat, se_lon) ==
    process_data(Opened(ds, Val(detect_variable(ds))), starting_date, ending_date,
                 nw_lat, nw_lon, se_lat, se_lon)

\* what verify_data raises before load_netcdf_data reads the variable: the
\* resolution of the window, the loading of the CSV, the decoding of the dates
RaisedBeforeRead ==
    {"CoordinateOutOfBounds", "AttributeError", "StartDateOutOfBounds",
     "EndDateOutOfBounds", "StopIteration", "UnboundLocalError", "FileNotFoundError"}

\* dataset.variables[variable_name] in load_netcdf_data raises KeyError for
\* a name the dataset does not have; v is the call up to that read
key_error(v) ==
    IF v.err \in RaisedBeforeRead THEN v
    ELSE Verdict("raise", "KeyError", v.start_idx, v.end_idx, v.ranges, None, {}, FALSE)

\* self.verify_data(netcdf_filepath, csv_filepath, ..., variable_name) with
\* variable_name = filename.split('_')[0]
verify_unit_named(ds, filename, file, starting_date, ending_date, nw_lat, nw_lon, se_lat, se_lon) ==
    IF HasVariable(ds, variable_name(filename))
    THEN verify_data(Opened(ds, variable_name(filename)), file, starting_date,
                     ending_date, nw_lat, nw_lon, se_lat, se_lon)
    ELSE key_error(verify_data(Opened(ds, Val(detect_variable(ds))), file,
                               starting_date, ending_date,
                               nw_lat, nw_lon, se_lat, se_lon))

\* the orders of dataset.variables: 't' alone after or before the
\* coordinates, 'p' and 't' in both orders, 'p' alone
VariableLists ==
    LET lat == Named(<<"l", "a", "t", "i", "t", "u", "d", "e">>, 0)
        lon == Named(<<"l", "o", "n", "g", "i", "t", "u", "d", "e">>, 0)
        time == Named(<<"t", "i", "m", "e">>, 0)
        t == Named(<<"t">>, 0)
        p == Named(<<"p">>, 3000000)
    IN  {<<time, lat, lon, t>>, <<t, time, lat, lon>>, <<time, lat, lon, p, t>>,
         <<lat, lon, time, t, p>>, <<time, lat, lon, p>>}

Datasets ==
    {Dataset(WideGrid.latitude, WideGrid.longitude, WideGrid.time, o, cal, vs) :
        o \in {0, TicksPerDay + 1}, cal \in {None, Some("standard")},
        vs \in VariableLists}

\* 't_a_1.nc' and 'p_a_2.nc'
UnitFilenames ==
    {<<"t", "_", "a", "_", "1", ".", "n", "c">>,
     <<"p", "_", "a", "_", "2", ".", "n", "c">>}

InitDataset ==
    /\ grid = WideGrid
    /\ req \in TamperRequests
    /\ phase = "unit"
    /\ presult = NoOutcome
    /\ artifact = None
    /\ altered = NoAlteration
    /\ vresult = NoVerdict
    /\ call = NoCall
    /\ \E ds \in Datasets, filename \in UnitFilenames :
          batch = [op |-> "unit", dataset |-> ds, filename |-> filename,
                   extractor_variable |-> None, verifier_variable |-> None]

\* one unit of process_file: the extractor is constructed on the dataset
\* and process_data runs
ProcessUnit ==
    /\ phase = "unit"
    /\ LET out == extract_unit(batch.dataset, req.starting_date, req.ending_date,
                               req.nw_lat, req.nw_lon, req.se_lat, req.se_lon)
       IN  /\ presult' = [out EXCEPT !.file = None]
           /\ artifact' = out.file
    /\ batch' = [batch EXCEPT !.extractor_variable = detect_variable(batch.dataset)]
    /\ phase' = "unit_processed"
    /\ UNCHANGED <<grid, req, altered, vresult, call>>

\* one unit of process_and_verify_files
VerifyUnit ==
    /\ phase = "unit_processed"
    /\ vresult' = verify_unit_named(batch.dataset, batch.filename, artifact,
                                    req.starting_date, req.ending_date,
                                    req.nw_lat, req.nw_lon, req.se_lat, req.se_lon)
    /\ batch' = [batch EXCEPT !.verifier_variable = Some(variable_name(batch.filename))]
    /\ phase' = "unit_verified"
    /\ UNCHANGED <<grid, req, presult, artifact, altered, call>>

NextDataset == ProcessUnit \/ VerifyUnit

SpecDataset == InitDataset /\ [][NextDataset]_vars

----------------------------------------------------------------------------
(* An artifact that has lost value columns before the verification *)

\* the written file loses its last value column, the header and the values
DropColumn ==
    /\ phase \in {"processed", "altered"}
    /\ artifact # None
    /\ Len(Val(artifact).headers) >= 2
    /\ LET f == Val(artifact)
           n == Len(f.headers)
       IN  artifact' = Some([f EXCEPT
                                !.headers = SubSeq(@, 1, n - 1),
                                !.data = [r \in 1..Len(f.data) |->
                                             SubSeq(f.data[r], 1, n - 2)]])
    /\ phase' = "altered"
    /\ UNCHANGED <<batch, grid, req, presult, altered, vresult, call>>

\* values around 0 and around 100, in units of 1e-6
ShapeBases == {0, 100000000}
ShapeGrids ==
    {Grid(<<208, 206, 204>>, <<-4, -2, 0>>,
          <<0, TicksPerDay, 2 * TicksPerDay>>, 0, b) : b \in ShapeBases}
\* regions of 2 x 2 cells, of one cell and of 1 x 2 cells
ShapeRequests ==
    {Request(c[1], c[2], c[3], c[4], d[1], d[2]) :
        c \in {<<207, -3, 205, -1>>, <<206, -2, 206, -2>>, <<206, -3, 206, -1>>},
        d \in {<<None, None>>, <<Some(1), None>>, <<Some(1), Some(2)>>,
                <<None, Some(1)>>}}

InitShape ==
    /\ grid \in ShapeGrids
    /\ req \in ShapeRequests
    /\ phase = "init"
    /\ presult = NoOutcome
    /\ artifact = None
    /\ altered = NoAlteration
    /\ vresult = NoVerdict
    /\ call = NoCall
    /\ batch = NoBatch

NextShape == ProcessData \/ DropColumn \/ VerifyData

SpecShape == InitShape /\ [][NextShape]_vars

----------------------------------------------------------------------------
(* Vocabulary of the properties *)

Decoded == num2date(grid.time, grid.origin)
FirstDate == Decoded[1]
LastDate == Decoded[Len(Decoded)]
Processed == phase \in {"processed", "altered", "verified"}

InAxis(axis, c) == \E lo \in Range(axis), hi \in Range(axis) : lo <= c /\ c <= hi
CornersInBounds ==
    /\ InAxis(grid.latitude, req.nw_lat) /\ InAxis(grid.latitude, req.se_lat)
    /\ InAxis(grid.longitude, req.nw_lon) /\ InAxis(grid.longitude, req.se_lon)

\* a supplied date strictly before the first or strictly after the last decoded date
Outside(date) ==
    date # None /\ (strptime(Val(date)) < FirstDate \/ strptime(Val(date)) > LastDate)

\* the 0-based time index of the first row process_data extracts, and the
\* index after its last row
WindowStart == IF presult.start_idx = None THEN 0 ELSE Val(presult.start_idx)
WindowStop ==
    IF presult.start_idx # None /\ presult.end_idx # None
    THEN Val(presult.end_idx) ELSE Len(Decoded)
\* the date sequence of the grid over that window
GridDates ==
    [r \in 1..(WindowStop - WindowStart) |-> strftime(Decoded[WindowStart + r])]

\* the decoded dates the requested range selects
InRange(d) ==
    /\ req.starting_date # None => d >= strptime(Val(req.starting_date))
    /\ req.ending_date # None => d <= strptime(Val(req.ending_date))

\* a request the round trip is claimed for: corners and dates inside the
\* bounds, and a range that selects at least one decoded date
WellFormedRequest ==
    /\ CornersInBounds
    /\ ~Outside(req.starting_date) /\ ~Outside(req.ending_date)
    /\ \E i \in 1..Len(Decoded) : InRange(Decoded[i])

----------------------------------------------------------------------------
(* C1 *)

\* C1 (as claimed): for every grid, in-bounds region and in-bounds date range
\* (start only, end only, both, neither), process_data writes the artifact and
\* verify_data on the same grid, region and date range returns True with no
\* mismatch and without raising.
C1_RoundTrip ==
    WellFormedRequest =>
        /\ Processed => presult.err = "none" /\ artifact # None
        /\ phase = "verified" =>
              vresult.status = "pass" /\ vresult.mismatches = {}

----------------------------------------------------------------------------
(* C5 *)

\* C5 (as claimed): when ending_date equals the last decoded date, process_data
\* succeeds and the rows of the artifact run through the last time index, the
\* last row being the final date of the dataset.
C5_EndAtLastDate ==
    (/\ Processed
     /\ CornersInBounds
     /\ req.ending_date # None
     /\ strptime(Val(req.ending_date)) = LastDate
     /\ ~Outside(req.starting_date))
    => /\ presult.err = "none"
       /\ artifact # None
       /\ Val(artifact).dates[Len(Val(artifact).dates)] = strftime(LastDate)

----------------------------------------------------------------------------
(* C6 *)

DateErrors == {"StartDateOutOfBounds", "EndDateOutOfBounds"}

\* C6: process_data fails with the date out-of-bounds error, and writes no
\* artifact, whenever a supplied starting_date or ending_date is strictly
\* before the first or strictly after the last decoded date; it does not fail
\* with that error when every supplied date is inside the bounds, a date equal
\* to the first or the last decoded date included.
C6_DateBounds ==
    Processed =>
        /\ (Outside(req.starting_date) \/ Outside(req.ending_date))
              => presult.err \in DateErrors /\ artifact = None
        /\ (~Outside(req.starting_date) /\ ~Outside(req.ending_date))
              => presult.err \notin DateErrors

\* a date range entirely before the first available date has failed
C6_Witness ==
    /\ phase = "processed"
    /\ req.starting_date # None /\ req.ending_date # None
    /\ Val(req.starting_date) <= Val(req.ending_date)
    /\ strptime(Val(req.ending_date)) < FirstDate
    /\ presult.err = "StartDateOutOfBounds"
    /\ artifact = None

----------------------------------------------------------------------------
(* C7 *)

\* C7 (as claimed): whenever the resolved window has zero rows, process_data
\* fails with the empty-result error of save_to_csv and writes no artifact.
C7_EmptyResult ==
    (/\ Processed
     /\ presult.start_idx # None /\ presult.end_idx # None
     /\ Val(presult.end_idx) <= Val(presult.start_idx))
    => presult.err = "EmptyResult" /\ artifact = None

----------------------------------------------------------------------------
(* C8 *)

\* the 0-based time index of the first row process_data extracts
FirstRow == IF presult.start_idx = None THEN 0 ELSE Val(presult.start_idx)

\* the 0-based grid cell <<la, lo>> behind 0-based data column k of a window
\* of lat_range x lon_range, latitude outer and longitude inner
CellOfColumn(k, lat_range, lon_range) ==
    LET nlon == lon_range.stop - lon_range.start
    IN  <<lat_range.start + (k \div nlon), lon_range.start + (k % nlon)>>

\* C8: generate_headers returns 'Date' followed by exactly one header per data
\* column, so the header count minus one is the column count (latitudes times
\* longitudes of the window) and the shape mismatch never occurs; the k-th
\* data header is the one-decimal coordinate pair of the grid cell whose
\* values fill the k-th data column.  The 3 x 3 example of the specification
\* gives 9 columns headed '52.0, -1.0' through '51.0, 0.0'.
C8_HeadersMatchColumns ==
    /\ presult.err # "ShapeMismatch"
    /\ (Processed /\ presult.err = "none") =>
          LET f == Val(artifact)
              w == Val(presult.ranges)
              nlat == w.lat_range.stop - w.lat_range.start
              nlon == w.lon_range.stop - w.lon_range.start
          IN  /\ f.headers[1] = DateHeader
              /\ Len(f.headers) - 1 = nlat * nlon
              /\ \A r \in 1..Len(f.data) :
                    /\ Len(f.data[r]) = Len(f.headers) - 1
                    /\ \A k \in 1..Len(f.data[r]) :
                          LET c == CellOfColumn(k - 1, w.lat_range, w.lon_range)
                          IN  /\ f.data[r][k] =
                                    GridValue(grid, FirstRow + r - 1, c[1], c[2])
                              /\ f.headers[k + 1] =
                                    [kind |-> "cell",
                                     lat |-> Fmt1(grid.latitude[c[1] + 1]),
                                     lon |-> Fmt1(grid.longitude[c[2] + 1])]
    /\ (/\ Processed /\ presult.err = "none"
        /\ grid.latitude = <<208, 206, 204>> /\ grid.longitude = <<-4, -2, 0>>
        /\ req.nw_lat = 208 /\ req.nw_lon = -4 /\ req.se_lat = 204 /\ req.se_lon = 0)
       => Val(artifact).headers =
             <<DateHeader>> \o
             [k \in 1..9 |->
                [kind |-> "cell",
                 lat |-> <<520, 520, 520, 515, 515, 515, 510, 510, 510>>[k],
                 lon |-> <<-10, -5, 0, -10, -5, 0, -10, -5, 0>>[k]]]

\* an artifact of a window that is a proper part of the grid in both axes
\* and has several latitudes and several longitudes
C8_Witness ==
    /\ phase = "processed" /\ presult.err = "none" /\ artifact # None
    /\ LET w == Val(presult.ranges)
       IN  /\ w.lat_range.stop - w.lat_range.start = 2
           /\ w.lon_range.stop - w.lon_range.start = 2
           /\ Len(grid.latitude) = 3 /\ Len(grid.longitude) = 3
    /\ Len(Val(artifact).headers) = 5

----------------------------------------------------------------------------
(* C2, C3: find_index *)

CallAxis == IF call.type = "latitude" THEN grid.latitude ELSE grid.longitude
\* the distance of 1-based axis element j from the target of the call
Dist(j) == Abs(CallAxis[j] - call.coordinate)

\* C2: for every axis array and every target inside [min, max], find_index
\* returns an index no other index is strictly nearer the target than, and
\* the lowest of the indices at that least distance.
C2_NearestLowestIndex ==
    (call.op = "find_index" /\ InAxis(CallAxis, call.coordinate)) =>
        /\ call.ret.err = "none"
        /\ LET i == Val(call.ret.val) + 1
           IN  /\ i \in 1..Len(CallAxis)
               /\ \A j \in 1..Len(CallAxis) : Dist(j) >= Dist(i)
               /\ \A j \in 1..(i - 1) : Dist(j) > Dist(i)

\* find_index has resolved a target that lies midway between two different
\* axis values, both at the least distance
C2_Witness ==
    /\ call.op = "find_index" /\ call.ret.err = "none"
    /\ LET i == Val(call.ret.val) + 1
       IN  \E j \in (i + 1)..Len(CallAxis) :
              Dist(j) = Dist(i) /\ CallAxis[j] # CallAxis[i]

\* C3: for every axis array, a target strictly below the least or strictly
\* above the greatest axis value makes find_index fail with the out-of-bounds
\* error and return no index; a target equal to the least or the greatest
\* axis value does not fail.
C3_OutOfBounds ==
    call.op = "find_index" =>
        /\ ((\A x \in Range(CallAxis) : call.coordinate < x)
              \/ (\A x \in Range(CallAxis) : call.coordinate > x))
           => call.ret.err = "CoordinateOutOfBounds" /\ call.ret.val = None
        /\ (call.coordinate = SeqMin(CallAxis) \/ call.coordinate = SeqMax(CallAxis))
           => call.ret.err = "none" /\ call.ret.val # None

\* find_index has failed on a target above every value of a several-valued axis
C3_Witness ==
    /\ call.op = "find_index"
    /\ Len(CallAxis) > 1
    /\ \A x \in Range(CallAxis) : call.coordinate > x
    /\ call.ret.err = "CoordinateOutOfBounds"

----------------------------------------------------------------------------
(* C4 *)

\* C4: for every grid and every pair of in-bounds corners, get_lat_lon_indices
\* returns the same (lat_range, lon_range) after the north-west and south-east
\* corners are exchanged, whichever coordinate is larger and whatever the
\* order of the axis.
C4_CornerOrderIndependent ==
    (phase = "swapped" /\ CornersInBounds) =>
        /\ call.ret.err = "none"
        /\ call.ret = Val(call.prev)

\* both orders resolved, for corners that resolve to different indices on
\* both axes
C4_Witness ==
    /\ phase = "swapped" /\ CornersInBounds
    /\ call.ret.err = "none"
    /\ req.nw_lat # req.se_lat
    /\ Val(call.ret.val).lat_range.stop - Val(call.ret.val).lat_range.start > 1
    /\ Val(call.ret.val).lon_range.stop - Val(call.ret.val).lon_range.start > 1

----------------------------------------------------------------------------
(* C9, C10: the comparison of verify_data *)

\* the grid value behind 1-based row r, 1-based data column k of the artifact
Expected(r, k) ==
    LET w == Val(presult.ranges)
        c == CellOfColumn(k - 1, w.lat_range, w.lon_range)
    IN  GridValue(grid, FirstRow + r - 1, c[1], c[2])

\* the 0-based (row, column) pairs of the artifact
Cells ==
    {<<r - 1, k - 1>> : r \in 1..Len(Val(artifact).data),
                        k \in 1..Len(Val(artifact).data[1])}
CsvValue(ix) == Val(artifact).data[ix[1] + 1][ix[2] + 1]

\* verify_data has compared the values of an artifact of the window's shape
Compared ==
    /\ phase = "verified" /\ artifact # None /\ presult.err = "none"
    /\ vresult.compared /\ vresult.status \in {"pass", "fail"}

\* C9 (as claimed): the closeness test is a fixed absolute tolerance: a cell is
\* accepted if and only if abs(csv_value - grid_value) <= 1e-6, whatever the
\* magnitude of the values, and a cell differing by more is always a mismatch.
C9_AbsoluteTolerance ==
    Compared =>
        \A ix \in Cells :
            ix \in vresult.mismatches
                <=> Abs(CsvValue(ix) - Expected(ix[1] + 1, ix[2] + 1)) > Atol

\* the Date column of the artifact is the date sequence of the grid's window
DatesAgree ==
    /\ artifact # None /\ presult.err = "none"
    /\ Val(artifact).dates = GridDates

\* the cells that violate the closeness test the verifier applies
Violating ==
    {ix \in Cells : ~isclose(CsvValue(ix), Expected(ix[1] + 1, ix[2] + 1))}

\* the exceptions verify_data raises while it resolves its window, before
\* it loads the two date sequences
ResolutionErrors ==
    {"CoordinateOutOfBounds", "StartDateOutOfBounds", "EndDateOutOfBounds",
     "StopIteration", "UnboundLocalError"}

----------------------------------------------------------------------------
(* C11 .. C14: the batch *)

BatchDone == phase \in {"batch_processed", "batch_verified"}
ListedFiles == netcdf_files(batch.config.listing)

\* the (dataset file, region) units of the batch, in the order of the two
\* loops: every region for every listed dataset file that is there to open
ExpectedUnits ==
    Flatten([i \in 1..Len(ListedFiles) |->
                IF ListedFiles[i].name \in batch.config.missing THEN <<>>
                ELSE [k \in 1..Len(batch.config.coords) |->
                         <<ListedFiles[i].name, batch.config.coords[k].city>>]])

\* the units a run has entered, in order
Entered(run) ==
    [i \in 1..Len(run.units) |-> <<run.units[i].filename, run.units[i].city>>]

BoundsErrors == {"CoordinateOutOfBounds", "StartDateOutOfBounds", "EndDateOutOfBounds"}
\* no unit of the run has failed other than by a bounds violation
OnlyBoundsFailures(run) ==
    \A i \in 1..Len(run.units) : run.units[i].err \in BoundsErrors \cup {"none"}

\* C11 (as claimed): a unit that fails with a bounds violation does not stop
\* the batch: when bounds violations are the only failures, process_all
\* returns having entered every (dataset file, region) unit, the ones after
\* the failed unit included, and so does process_and_verify_files.
C11_BatchContinues ==
    /\ (BatchDone /\ OnlyBoundsFailures(batch.extraction))
          => /\ batch.extraction.err = "none"
             /\ Entered(batch.extraction) = ExpectedUnits
    /\ (phase = "batch_verified" /\ OnlyBoundsFailures(batch.verification))
          => /\ batch.verification.err = "none"
             /\ Entered(batch.verification) = ExpectedUnits

\* C12 (as claimed): a dataset file that is missing when process_file tries
\* to open it is skipped: no unit of it is entered and no artifact written
\* for it, no FileNotFoundError leaves process_file, and every remaining
\* dataset file of the enumeration is processed for every region.
C12_MissingFileSkipped ==
    BatchDone =>
        \A i \in 1..Len(ListedFiles) :
            ListedFiles[i].name \in Range(batch.extraction.skipped) =>
                /\ \A u \in Range(batch.extraction.units) :
                      u.filename # ListedFiles[i].name
                /\ batch.extraction.err # "FileNotFoundError"
                /\ \A j \in (i + 1)..Len(ListedFiles), k \in 1..Len(batch.config.coords) :
                      ListedFiles[j].name \notin batch.config.missing =>
                          <<ListedFiles[j].name, batch.config.coords[k].city>>
                              \in Range(Entered(batch.extraction))

\* C13 (as claimed): any two distinct (dataset file, region) units of one run
\* of process_all have different output paths, so no unit writes over the
\* artifact of another.
C13_PathsNeverCollide ==
    BatchDone =>
        \A i, j \in 1..Len(batch.extraction.units) :
            i # j => batch.extraction.units[i].path # batch.extraction.units[j].path

\* the part of s before its first sep, and the part after its last sep
BeforeFirst(s, sep) ==
    IF \A i \in 1..Len(s) : s[i] # sep THEN s
    ELSE SubSeq(s, 1, (CHOOSE i \in 1..Len(s) :
                          s[i] = sep /\ \A j \in 1..(i - 1) : s[j] # sep) - 1)
AfterLast(s, sep) ==
    IF \A i \in 1..Len(s) : s[i] # sep THEN s
    ELSE SubSeq(s, (CHOOSE i \in 1..Len(s) :
                       s[i] = sep /\ \A j \in (i + 1)..Len(s) : s[j] # sep) + 1, Len(s))
\* s with only its trailing '.nc' removed
WithoutExtension(s) ==
    IF endswith(s, DotNc) THEN SubSeq(s, 1, Len(s) - Len(DotNc)) ELSE s
\* '{variable}_{city}_{version}.csv' with the variable and version claimed
ClaimedName(filename, city) ==
    BeforeFirst(filename, "_") \o <<"_">> \o city \o <<"_">>
        \o WithoutExtension(AfterLast(filename, "_")) \o DotCsv

\* C14 (as claimed): process_all runs the extraction exactly once for every
\* listed dataset file and every region, each under the name
\* '{variable}_{city}_{version}.csv' where variable is the part of the
\* filename before its first underscore and version the part after its last
\* underscore with only the trailing extension removed; and
\* process_and_verify_files derives the same name for the same pair.
C14_ArtifactNames ==
    /\ BatchDone =>
          /\ Entered(batch.extraction) = ExpectedUnits
          /\ \A u \in Range(batch.extraction.units) :
                u.path[2] = ClaimedName(u.filename, u.city)
    /\ phase = "batch_verified" =>
          \A u \in Range(batch.extraction.units), v \in Range(batch.verification.units) :
              (u.filename = v.filename /\ u.city = v.city) => u.path = v.path

----------------------------------------------------------------------------
(* C15, C16: the time window of an extraction *)

\* the 0-based index of the first cell of the window's columns
FirstCell == <<Val(presult.ranges).lat_range.start, Val(presult.ranges).lon_range.start>>

\* the time indices the requested range selects: those from start_index up
\* to, not including, end_index
ClaimedRows == {i \in 0..(Len(Decoded) - 1) : InRange(Decoded[i + 1])}

\* C15 (as claimed): the rows of an extraction are exactly the time indices i
\* with start_index <= i < end_index, in increasing order, for start only,
\* end only, both and neither: from index 0 when starting_date is absent,
\* through the last index when ending_date is absent, and up to the last
\* date <= ending_date when only ending_date is supplied; data rows and date
\* labels are over the same window, so they are equally many.
C15_RowsAreWindow ==
    (Processed /\ presult.err = "none") =>
        LET f == Val(artifact)
            n == Cardinality(ClaimedRows)
            lo == CHOOSE i \in ClaimedRows : \A j \in ClaimedRows : i <= j
        IN  /\ Len(f.dates) = Len(f.data)
            /\ Len(f.data) = n
            /\ \A r \in 1..Len(f.data) :
                  /\ (lo + r - 1) \in ClaimedRows
                  /\ f.dates[r] = strftime(Decoded[lo + r])
                  /\ f.data[r][1] = GridValue(grid, lo + r - 1, FirstCell[1], FirstCell[2])

----------------------------------------------------------------------------
(* C17 *)

----------------------------------------------------------------------------
(* C18 *)

\* C18 (as claimed): for every grid, region and date range (start only, end
\* only, both, neither) verify_data fails to resolve its window whenever
\* process_data fails to resolve its own, and whenever process_data has
\* resolved its window verify_data resolves one too, with the same lat_range,
\* lon_range, start index and end index.
C18_SameWindow ==
    phase = "verified" =>
        /\ presult.err \in ResolutionErrors => vresult.err \in ResolutionErrors
        /\ presult.ranges # None =>
              /\ vresult.err \notin ResolutionErrors
              /\ vresult.ranges = presult.ranges
              /\ vresult.start_idx = presult.start_idx
              /\ vresult.end_idx = presult.end_idx

----------------------------------------------------------------------------
(* C19, C20: the date check of verify_data *)

\* verify_data has loaded the date sequence of the artifact and of the grid
DatesLoaded ==
    /\ phase = "verified" /\ artifact # None /\ presult.err = "none"
    /\ vresult.err \notin ResolutionErrors

\* C19 (as claimed): the date sequences are compared first, string by string
\* and in length; whenever the artifact's date sequence differs from the
\* grid's, verify_data returns fail with a date-mismatch report, does not
\* compare the values and reports no cell.
C19_DatesFirst ==
    (DatesLoaded /\ Val(artifact).dates # GridDates) =>
        /\ vresult.status = "fail"
        /\ vresult.date_report # None
        /\ ~vresult.compared
        /\ vresult.mismatches = {}

\* the 1-based positions at which both sequences have a date and the dates differ
Divergent ==
    {p \in 1..Min2(Len(Val(artifact).dates), Len(GridDates)) :
        Val(artifact).dates[p] # GridDates[p]}

\* C20 (as claimed): on a date mismatch the pair reported is the (artifact
\* date, grid date) at the lowest position where the two sequences differ,
\* wherever that position is.
C20_FirstDivergentPair ==
    (DatesLoaded /\ vresult.date_report # None /\ Divergent # {}) =>
        LET p == CHOOSE p \in Divergent : \A q \in Divergent : p <= q
        IN  Val(vresult.date_report) = <<Val(artifact).dates[p], GridDates[p]>>

----------------------------------------------------------------------------
\* the first name of dataset.variables that is not a coordinate name
FirstDataVariable ==
    LET vs == batch.dataset.variables
        i == CHOOSE i \in 1..Len(vs) :
                 /\ vs[i].name \notin CoordinateNames
                 /\ \A j \in 1..(i - 1) : vs[j].name \in CoordinateNames
    IN  vs[i].name

\* C21 (as claimed): the extractor and the verifier both read the first
\* variable of the dataset whose name is not 'latitude', 'longitude' or
\* 'time'; for the same dataset they read the same variable whatever the
\* filename of the dataset is, and the verifier finds it in the dataset.
C21_SameVariable ==
    /\ phase \in {"unit_processed", "unit_verified"} =>
          batch.extractor_variable = Some(FirstDataVariable)
    /\ phase = "unit_verified" =>
          /\ batch.verifier_variable = batch.extractor_variable
          /\ vresult.err # "KeyError"

\* the dataset of the unit with calendar 'standard' declared on its time axis
Declared == [batch.dataset EXCEPT !.calendar = Some("standard")]

\* C22 (as claimed): on a dataset whose time axis declares no calendar,
\* process_data and verify_data resolve and label the dates with the
\* standard calendar and complete without an AttributeError, with the
\* outcome they have on the same dataset declaring calendar 'standard'.
C22_DefaultCalendar ==
    (phase \in {"unit_processed", "unit_verified"} /\ batch.dataset.calendar = None) =>
        /\ presult.err # "AttributeError"
        /\ presult = [extract_unit(Declared, req.starting_date, req.ending_date,
                                   req.nw_lat, req.nw_lon, req.se_lat, req.se_lon)
                         EXCEPT !.file = None]
        /\ phase = "unit_verified" => vresult.err # "AttributeError"

\* the value columns of the artifact, and the rows and columns of the window
\* verify_data extracts again from the grid
ArtifactColumns == Len(Val(artifact).headers) - 1
WindowColumns ==
    LET w == Val(vresult.ranges)
    IN  (w.lat_range.stop - w.lat_range.start) * (w.lon_range.stop - w.lon_range.start)
WindowRows ==
    Len(Slice(grid.time,
              IF vresult.start_idx = None THEN 0 ELSE Val(vresult.start_idx),
              IF vresult.start_idx # None /\ vresult.end_idx # None
              THEN Val(vresult.end_idx) ELSE Len(grid.time)))

\* C23 (as claimed): verify_data returns pass only when the value matrix of
\* the artifact has exactly the rows and the columns of the window extracted
\* again from the grid; an artifact with another number of columns is never
\* verified, and verify_data returns fail for it: no exception escapes.
C23_SameShape ==
    (phase = "verified" /\ artifact # None /\ vresult.err \notin ResolutionErrors) =>
        /\ vresult.status = "pass" =>
              /\ Len(Val(artifact).data) = WindowRows
              /\ ArtifactColumns = WindowColumns
        /\ ArtifactColumns # WindowColumns => vresult.status = "fail"

====
